---- MODULE Spec2Model ----
(***************************************************************************)
(* Model of github-issues (src/main.rs): classification of issue records,  *)
(* the comparator handed to sorted_by, and the fetch / filter / sort /     *)
(* write pipeline of main.                                                 *)
(*                                                                         *)
(* Encoding.  Option<T> is a sequence of length at most one: <<>> is None  *)
(* and <<x>> is Some(x).  Text that the program slices or orders           *)
(* (timestamps, component names) is a sequence of byte codes; text that    *)
(* the program only tests for equality or copies (label names, titles,     *)
(* logins) is a string.  A repository_url is given by what Url::parse and  *)
(* path_segments make of it.                                               *)
(***************************************************************************)
EXTENDS Integers, Sequences, FiniteSets, TLC

VARIABLES pc, components, fetched, issues, cursor, rows, call, ret

vars == <<pc, components, fetched, issues, cursor, rows, call, ret>>

pipeVars == <<pc, components, fetched, issues, cursor, rows>>

None == <<>>

Some(x) == <<x>>

Range(s) == {s[i] : i \in DOMAIN s}

\* Bounds of the model.
MaxIssues == 3

MaxLabels == 2

----------------------------------------------------------------------------
\* Byte-wise ordering of text, as Ord for str: "Less", "Equal" or "Greater".
RECURSIVE StrCmp(_, _)
StrCmp(s, t) ==
    IF s = <<>> /\ t = <<>> THEN "Equal"
    ELSE IF s = <<>> THEN "Less"
    ELSE IF t = <<>> THEN "Greater"
    ELSE IF Head(s) < Head(t) THEN "Less"
    ELSE IF Head(s) > Head(t) THEN "Greater"
    ELSE StrCmp(Tail(s), Tail(t))

\* Ord for Option<&str>: None is below every Some.
OptStrCmp(x, y) ==
    IF x = None /\ y = None THEN "Equal"
    ELSE IF x = None THEN "Less"
    ELSE IF y = None THEN "Greater"
    ELSE StrCmp(x[1], y[1])

\* Ord for u32.
NumCmp(m, n) == IF m < n THEN "Less" ELSE IF m > n THEN "Greater" ELSE "Equal"

\* Length of the 'yyyy-mm-dd' prefix kept by strip_date.
DateLen == 10

\* strip_date: &d[..10]; the slice panics on a shorter text.
strip_date(d) ==
    IF Len(d) < DateLen THEN [panic |-> TRUE, v |-> <<>>]
    ELSE [panic |-> FALSE, v |-> SubSeq(d, 1, DateLen)]

is_pull_request(i) == i.pull_request # None

\* get_component: the last path segment of the parsed repository URL.
\* repository_url.parsed is FALSE when Url::parse fails; segments is None
\* when path_segments() is None (a cannot-be-a-base URL).
get_component(i) ==
    LET u == i.repository_url IN
    IF ~u.parsed THEN [panic |-> TRUE, v |-> <<>>]
    ELSE IF u.segments = None THEN [panic |-> TRUE, v |-> <<>>]
    ELSE IF u.segments[1] = <<>> THEN [panic |-> TRUE, v |-> <<>>]
    ELSE [panic |-> FALSE, v |-> u.segments[1][Len(u.segments[1])]]

PriorityOfName(name) ==
    CASE name = "P0" -> Some(0)
      [] name = "P1" -> Some(1)
      [] name = "P2" -> Some(2)
      [] name = "P3" -> Some(3)
      [] name = "P4" -> Some(4)
      [] name = "P5" -> Some(5)
      [] OTHER -> None

RECURSIVE ScanPriority(_)
ScanPriority(ls) ==
    IF ls = <<>> THEN None
    ELSE IF PriorityOfName(Head(ls)) # None THEN PriorityOfName(Head(ls))
    ELSE ScanPriority(Tail(ls))

RECURSIVE MinPriority(_)
MinPriority(ls) ==
    IF ls = <<>> THEN None
    ELSE LET h == PriorityOfName(Head(ls))
             r == MinPriority(Tail(ls))
         IN IF h = None THEN r
            ELSE IF r = None THEN h
            ELSE IF r[1] < h[1] THEN r ELSE h

\* Variant of get_priority that takes the most urgent label, not the first.
get_priority_min(i) ==
    IF i.labels = None THEN None ELSE MinPriority(i.labels[1])

get_priority(i) ==
    IF i.labels = None THEN None ELSE ScanPriority(i.labels[1])

\* Variant of get_state that tests "blocked" before "under review".
get_state_blocked_first(i) ==
    IF i.state = "closed" THEN "Closed"
    ELSE IF i.labels # None /\ \E k \in DOMAIN i.labels[1] : i.labels[1][k] = "blocked"
         THEN "Blocked"
    ELSE IF i.labels # None /\ \E k \in DOMAIN i.labels[1] : i.labels[1][k] = "under review"
         THEN "UnderReview"
    ELSE "Open"

get_state(i) ==
    IF i.state = "closed" THEN "Closed"
    ELSE IF i.labels # None /\ \E k \in DOMAIN i.labels[1] : i.labels[1][k] = "under review"
         THEN "UnderReview"
    ELSE IF i.labels # None /\ \E k \in DOMAIN i.labels[1] : i.labels[1][k] = "blocked"
         THEN "Blocked"
    ELSE "Open"

get_state_str(i) ==
    CASE get_state(i) = "Open" -> "open"
      [] get_state(i) = "Closed" -> "closed"
      [] get_state(i) = "Blocked" -> "blocked"
      [] get_state(i) = "UnderReview" -> "under review"

get_created_at(i) == strip_date(i.created_at)

get_closed_at(i) ==
    IF i.closed_at = None THEN [panic |-> FALSE, v |-> None]
    ELSE LET d == strip_date(i.closed_at[1])
         IN [panic |-> d.panic, v |-> IF d.panic THEN None ELSE Some(d.v)]

\* Derived Ord of enum IssueState: position in the declaration.
StateRank(s) ==
    CASE s = "Blocked" -> 0
      [] s = "UnderReview" -> 1
      [] s = "Open" -> 2
      [] s = "Closed" -> 3

\* Decimal digits of a u32, as format!("{}") prints it.
RECURSIVE Decimal(_)
Decimal(n) == IF n < 10 THEN <<48 + n>> ELSE Decimal(n \div 10) \o <<48 + (n % 10)>>

\* Issue::csv: the row projected from an issue; panics when a date or the
\* repository URL cannot be processed.
csv(i) ==
    LET c == get_component(i)
        cr == get_created_at(i)
        cl == get_closed_at(i)
    IN IF c.panic \/ cr.panic \/ cl.panic THEN [panic |-> TRUE, v |-> <<>>]
       ELSE [panic |-> FALSE,
             v |-> [component |-> c.v,
                    id |-> <<35>> \o Decimal(i.number),
                    title |-> i.title,
                    state |-> get_state_str(i),
                    assignee |-> i.assignee,
                    milestone |-> i.milestone,
                    priority |-> get_priority(i),
                    created_at |-> cr.v,
                    closed_at |-> cl.v,
                    url |-> i.html_url]]

----------------------------------------------------------------------------
\* The comparator closure passed to sorted_by.  A result is "Less", "Equal",
\* "Greater", or "Panic" when an expect() inside it fails.

\* Lines 263-288: the rules after the closed-last match.
RankOpen(a, b) ==
    LET state_a == get_state(a)
        state_b == get_state(b)
        pa == get_priority(a)
        pb == get_priority(b)
        ca == get_component(a)
        cb == get_component(b)
        da == get_closed_at(a)
        db == get_closed_at(b)
    IN IF pa # None /\ pb = None THEN "Less"
       ELSE IF pa = None /\ pb # None THEN "Greater"
       ELSE IF pa # None /\ pb # None THEN NumCmp(pa[1], pb[1])
       ELSE IF state_a # state_b THEN NumCmp(StateRank(state_a), StateRank(state_b))
       ELSE IF state_a = "Closed"
            THEN IF db.panic \/ da.panic THEN "Panic" ELSE OptStrCmp(db.v, da.v)
       ELSE IF ca.panic \/ cb.panic THEN "Panic"
       ELSE IF StrCmp(ca.v, cb.v) # "Equal" THEN StrCmp(ca.v, cb.v)
       ELSE NumCmp(a.number, b.number)

\* Variant of the comparator without the "put closed tasks last" match.
CompareNoClosedLast(a, b) == RankOpen(a, b)

\* Variant of the comparator that applies the state rule before priorities.
CompareStateFirst(a, b) ==
    IF get_state(a) = "Closed" THEN "Greater"
    ELSE IF get_state(b) = "Closed" THEN "Less"
    ELSE IF get_state(a) # get_state(b)
         THEN NumCmp(StateRank(get_state(a)), StateRank(get_state(b)))
    ELSE RankOpen(a, b)

Compare(a, b) ==
    IF get_state(a) = "Closed" THEN "Greater"
    ELSE IF get_state(b) = "Closed" THEN "Less"
    ELSE RankOpen(a, b)

\* sorted_by collects the iterator and runs the standard stable sort, which
\* consults the closure only through is_less(x, y) = (compare(x, y) == Less).
\* For the short vectors considered here that sort is the insertion sort
\* below: for each start index from the right, insert_head puts the head of
\* the slice into the already sorted tail.
RECURSIVE ShiftHole(_, _, _)
ShiftHole(v, tmp, k) ==
    IF k > Len(v) THEN [panic |-> FALSE, v |-> [v EXCEPT ![k - 1] = tmp]]
    ELSE LET c == Compare(v[k], tmp)
         IN IF c = "Panic" THEN [panic |-> TRUE, v |-> <<>>]
            ELSE IF c # "Less" THEN [panic |-> FALSE, v |-> [v EXCEPT ![k - 1] = tmp]]
            ELSE ShiftHole([v EXCEPT ![k - 1] = v[k]], tmp, k + 1)

InsertHead(v) ==
    IF Len(v) < 2 THEN [panic |-> FALSE, v |-> v]
    ELSE LET c == Compare(v[2], v[1])
         IN IF c = "Panic" THEN [panic |-> TRUE, v |-> <<>>]
            ELSE IF c = "Less" THEN ShiftHole([v EXCEPT ![1] = v[2]], v[1], 3)
            ELSE [panic |-> FALSE, v |-> v]

RECURSIVE SortFrom(_, _)
SortFrom(v, k) ==
    IF k < 1 THEN [panic |-> FALSE, v |-> v]
    ELSE LET r == InsertHead(SubSeq(v, k, Len(v)))
         IN IF r.panic THEN r
            ELSE SortFrom(SubSeq(v, 1, k - 1) \o r.v, k - 1)

SortedBy(v) == SortFrom(v, Len(v) - 1)

\* Variant of the filter that lets every record through.
KeepAll(v) == v

\* Line 250: the filter that drops pull requests, in order.
RECURSIVE FilterIssues(_)
FilterIssues(v) ==
    IF v = <<>> THEN <<>>
    ELSE IF is_pull_request(Head(v)) THEN FilterIssues(Tail(v))
    ELSE <<Head(v)>> \o FilterIssues(Tail(v))

----------------------------------------------------------------------------
\* Input records.

\* "alpha", "beta", "repos", "owner" as bytes.
alpha == <<97, 108, 112, 104, 97>>

beta == <<98, 101, 116, 97>>

RepoPath(c) == << <<114, 101, 112, 111, 115>>, <<111, 119, 110, 101, 114>>, c >>

GoodUrl(c) == [parsed |-> TRUE, segments |-> Some(RepoPath(c))]

BadUrl == [parsed |-> FALSE, segments |-> None]

\* A URL that parses but cannot be a base, such as "mailto:owner".
NoBaseUrl == [parsed |-> TRUE, segments |-> None]

\* "2020-01-01T08:00:00Z", "2022-01-01T10:00:00Z", "2022-06-01T09:30:00Z", "2022-06"
T2020 == <<50,48,50,48,45,48,49,45,48,49,84,48,56,58,48,48,58,48,48,90>>

T2022Jan == <<50,48,50,50,45,48,49,45,48,49,84,49,48,58,48,48,58,48,48,90>>

T2022Jun == <<50,48,50,50,45,48,54,45,48,49,84,48,57,58,51,48,58,48,48,90>>

TShort == <<50,48,50,50,45,48,54>>

\* One decoded record of the issues endpoint (struct Issue).
Issue(c, n, labels, state, closed_at) ==
    [title |-> "issue",
     html_url |-> c \o <<47>> \o Decimal(n),
     number |-> n,
     repository_url |-> GoodUrl(c),
     pull_request |-> None,
     assignee |-> None,
     milestone |-> None,
     labels |-> labels,
     state |-> state,
     created_at |-> T2020,
     closed_at |-> closed_at]

\* What the IssueSource can return for a repository.
Records(c) ==
    IF c = alpha THEN
      { Issue(alpha, 5, Some(<<"P1">>), "open", None),
        Issue(alpha, 2, None, "closed", Some(T2022Jan)),
        Issue(alpha, 3, Some(<<"blocked">>), "closed", Some(T2022Jun)),
        [Issue(alpha, 4, None, "open", None) EXCEPT !.created_at = TShort],
        [Issue(alpha, 6, Some(<<"P0">>), "open", None) EXCEPT !.pull_request = Some("pull")],
        [Issue(alpha, 7, Some(<<"P2", "P0">>), "open", None) EXCEPT !.assignee = Some("bob")],
        Issue(alpha, 8, Some(<<"under review">>), "open", None),
        Issue(alpha, 1, Some(<<"P1", "blocked">>), "closed", Some(TShort)) }
    ELSE
      { Issue(beta, 9, Some(<<"blocked">>), "open", None),
        [Issue(beta, 10, None, "open", None) EXCEPT !.pull_request = Some("pull")],
        [Issue(beta, 1, Some(<<"under review", "blocked", "P1">>), "open", None)
            EXCEPT !.milestone = Some("1.0")],
        Issue(beta, 2, Some(<<"P0">>), "closed", None),
        [Issue(beta, 3, Some(<<>>), "open", None) EXCEPT !.repository_url = BadUrl],
        Issue(beta, 4, Some(<<"other">>), "open", None),
        [Issue(beta, 6, None, "open", None) EXCEPT !.repository_url = NoBaseUrl],
        Issue(beta, 5, Some(<<"P5", "blocked">>), "open", None) }

\* The component lists given on the command line.
ComponentArgs == { <<>>, <<alpha>>, <<beta>>, <<alpha, beta>>, <<beta, alpha>> }

RECURSIVE SeqsUpTo(_, _)
SeqsUpTo(S, n) ==
    IF n = 0 THEN { <<>> }
    ELSE LET shorter == SeqsUpTo(S, n - 1)
         IN shorter \cup { Append(q, x) : q \in shorter, x \in S }

\* A response body: a page of at most n records of repository c.
Responses(c, n) == SeqsUpTo(Records(c), n)

----------------------------------------------------------------------------
\* The run of main.  pc is "aborted" after a panic on a failed fetch, an
\* unusable repository URL or a short timestamp, and "write_failed" after a
\* panic on an error of the csv writer.

Init ==
    /\ pc = "fetch"
    /\ components \in ComponentArgs
    /\ fetched = <<>>
    /\ issues = <<>>
    /\ cursor = 0
    /\ rows = <<>>
    /\ call = [op |-> "none", args |-> <<>>]
    /\ ret = <<>>

\* One iteration of the loop of get_all_issues whose get_issues gives Some.
Fetch ==
    /\ pc = "fetch"
    /\ components # <<>>
    /\ \E resp \in Responses(Head(components), MaxIssues - Len(issues)) :
          /\ issues' = issues \o resp
          /\ fetched' = fetched \o resp
    /\ components' = Tail(components)
    /\ UNCHANGED <<pc, cursor, rows, call, ret>>

\* get_issues gives None (request error or empty body): expect() panics.
FetchFail ==
    /\ pc = "fetch"
    /\ components # <<>>
    /\ pc' = "aborted"
    /\ UNCHANGED <<components, fetched, issues, cursor, rows, call, ret>>

\* The rest of get_all_issues: filter out pull requests, then sorted_by.
FilterSort ==
    /\ pc = "fetch"
    /\ components = <<>>
    /\ LET s == SortedBy(FilterIssues(issues))
       IN IF s.panic
          THEN pc' = "aborted" /\ UNCHANGED issues
          ELSE pc' = "sorted" /\ issues' = s.v
    /\ UNCHANGED <<components, fetched, cursor, rows, call, ret>>

\* generate_csv: csv::Writer::from_path, which may fail.
OpenWriter ==
    /\ pc = "sorted"
    /\ \E ok \in BOOLEAN : pc' = IF ok THEN "writing" ELSE "write_failed"
    /\ UNCHANGED <<components, fetched, issues, cursor, rows, call, ret>>

\* One iteration of the loop of generate_csv: print the issue with its
\* component, project it and serialize the row.
EmitRow ==
    /\ pc = "writing"
    /\ cursor < Len(issues)
    /\ LET i == issues[cursor + 1]
       IN IF get_component(i).panic \/ csv(i).panic
          THEN pc' = "aborted" /\ UNCHANGED <<cursor, rows>>
          ELSE \E ok \in BOOLEAN :
                 IF ok
                 THEN /\ rows' = Append(rows, csv(i).v)
                      /\ cursor' = cursor + 1
                      /\ pc' = pc
                 ELSE pc' = "write_failed" /\ UNCHANGED <<cursor, rows>>
    /\ UNCHANGED <<components, fetched, issues, call, ret>>

\* wtr.flush() after the loop.
Flush ==
    /\ pc = "writing"
    /\ cursor = Len(issues)
    /\ \E ok \in BOOLEAN : pc' = IF ok THEN "done" ELSE "write_failed"
    /\ UNCHANGED <<components, fetched, issues, cursor, rows, call, ret>>

Next == Fetch \/ FetchFail \/ FilterSort \/ OpenWriter \/ EmitRow \/ Flush

Spec == Init /\ [][Next]_vars

----------------------------------------------------------------------------
\* The classification functions and the comparator applied to single inputs,
\* one application per behaviour.

LabelNames == { "P0", "P2", "P5", "under review", "blocked", "other", "p1", "Blocked" }

LabelSets == { None } \cup { Some(q) : q \in SeqsUpTo(LabelNames, MaxLabels) }

ClassifyInputs ==
    { [Issue(alpha, 1, ls, st, None) EXCEPT !.assignee = who] :
        ls \in LabelSets, st \in { "open", "closed" }, who \in { None, Some("bob") } }

RankInputs == Records(alpha) \cup Records(beta)

CallGetState ==
    /\ call.op = "none"
    /\ \E i \in ClassifyInputs :
          /\ call' = [op |-> "get_state", args |-> <<i>>]
          /\ ret' = get_state(i)
    /\ UNCHANGED pipeVars

CallGetPriority ==
    /\ call.op = "none"
    /\ \E i \in ClassifyInputs :
          /\ call' = [op |-> "get_priority", args |-> <<i>>]
          /\ ret' = get_priority(i)
    /\ UNCHANGED pipeVars

\* The comparator on every pairing of three issues.
CallCompare ==
    /\ call.op = "none"
    /\ \E a \in RankInputs, b \in RankInputs, c \in RankInputs :
          /\ call' = [op |-> "compare", args |-> <<a, b, c>>]
          /\ ret' = [ab |-> Compare(a, b), ba |-> Compare(b, a),
                     bc |-> Compare(b, c), ac |-> Compare(a, c),
                     aa |-> Compare(a, a)]
    /\ UNCHANGED pipeVars

NextGetState == CallGetState

SpecGetState == Init /\ [][NextGetState]_vars

NextGetPriority == CallGetPriority

SpecGetPriority == Init /\ [][NextGetPriority]_vars

NextCompare == CallCompare

SpecCompare == Init /\ [][NextCompare]_vars

----------------------------------------------------------------------------
\* Properties.

Returned == pc \in { "sorted", "writing", "done" }

TrueIssues(v) == SelectSeq(v, LAMBDA r : r.pull_request = None)

BagOf(v) == [x \in Range(v) |-> Cardinality({k \in DOMAIN v : v[k] = x})]

\* C1: in the vector returned by get_all_issues no Closed issue precedes an
\* issue that is not Closed.
ClosedLast ==
    Returned =>
      \A i \in DOMAIN issues, j \in DOMAIN issues :
         i < j => ~(get_state(issues[i]) = "Closed" /\ get_state(issues[j]) # "Closed")

\* A closed issue was fetched ahead of one that is not closed, and the sort ran.
ClosedLastWitness ==
    /\ pc = "sorted"
    /\ \E i \in DOMAIN fetched, j \in DOMAIN fetched :
          /\ i < j
          /\ fetched[i].pull_request = None /\ fetched[j].pull_request = None
          /\ fetched[i].state = "closed" /\ fetched[j].state = "open"

\* C2: among issues that are not Closed, one with a priority precedes one
\* without, and a lower priority value precedes a higher one, whatever their
\* states, components, numbers and input order.
PriorityBeforeState ==
    Returned =>
      \A i \in DOMAIN issues, j \in DOMAIN issues :
         LET pa == get_priority(issues[i])
             pb == get_priority(issues[j])
         IN (/\ get_state(issues[i]) # "Closed"
             /\ get_state(issues[j]) # "Closed"
             /\ pa # None
             /\ (pb = None \/ pa[1] < pb[1]))
            => i < j

\* A Blocked issue without priority was fetched ahead of an Open issue with one.
PriorityBeforeStateWitness ==
    /\ pc = "sorted"
    /\ \E i \in DOMAIN fetched, j \in DOMAIN fetched :
          /\ i < j
          /\ fetched[i].pull_request = None /\ fetched[j].pull_request = None
          /\ get_state(fetched[i]) = "Blocked" /\ get_priority(fetched[i]) = None
          /\ get_state(fetched[j]) = "Open" /\ get_priority(fetched[j]) # None

\* C3: of two Closed issues with the same priority, the one with the later
\* closing day comes first in the returned vector (no closing date is the
\* earliest day).
ClosedRecency ==
    Returned =>
      \A i \in DOMAIN issues, j \in DOMAIN issues :
         (/\ i < j
          /\ get_state(issues[i]) = "Closed" /\ get_state(issues[j]) = "Closed"
          /\ get_priority(issues[i]) = get_priority(issues[j])
          /\ ~get_closed_at(issues[i]).panic /\ ~get_closed_at(issues[j]).panic)
         => OptStrCmp(get_closed_at(issues[i]).v, get_closed_at(issues[j]).v) # "Less"

DistinctKeys(v) ==
    \A k \in DOMAIN v, l \in DOMAIN v :
       /\ ~get_component(v[k]).panic
       /\ k # l => (get_component(v[k]).v # get_component(v[l]).v \/ v[k].number # v[l].number)

\* C4: for issues with pairwise distinct (component, number), the returned
\* vector is the same for every order in which the records arrive.
DeterministicOrder ==
    (pc = "sorted" /\ DistinctKeys(TrueIssues(fetched))) =>
      \A p \in Permutations(DOMAIN fetched) :
         LET s == SortedBy(FilterIssues([k \in DOMAIN fetched |-> fetched[p[k]]]))
         IN ~s.panic /\ s.v = issues

\* C5: the comparator is consistent (Less one way exactly when Greater the
\* other way, Equal exactly when Equal the other way, an issue Equal to
\* itself) and transitive on Less.
StrictWeakOrdering ==
    (call.op = "compare" /\ \A f \in DOMAIN ret : ret[f] # "Panic") =>
       /\ (ret.ab = "Less") <=> (ret.ba = "Greater")
       /\ (ret.ab = "Equal") <=> (ret.ba = "Equal")
       /\ ret.aa = "Equal"
       /\ (ret.ab = "Less" /\ ret.bc = "Less") => ret.ac = "Less"

\* C6: get_state is Closed for raw state closed; otherwise UnderReview when a
\* label is named "under review"; otherwise Blocked when a label is named
\* "blocked"; otherwise Open; nothing else is consulted.
StateFirstMatch ==
    call.op = "get_state" =>
       LET i == call.args[1]
           names == IF i.labels = None THEN {} ELSE Range(i.labels[1])
       IN ret = CASE i.state = "closed" -> "Closed"
                  [] i.state # "closed" /\ "under review" \in names -> "UnderReview"
                  [] i.state # "closed" /\ "under review" \notin names
                       /\ "blocked" \in names -> "Blocked"
                  [] OTHER -> "Open"

\* An open issue labelled blocked and then under review was classified.
StateFirstMatchWitness ==
    /\ call.op = "get_state"
    /\ call.args[1].state = "open"
    /\ call.args[1].labels = Some(<<"blocked", "under review">>)
    /\ ret = "UnderReview"

PriorityNames == { "P0", "P1", "P2", "P3", "P4", "P5" }

PriorityValue == [n \in PriorityNames |->
                    CASE n = "P0" -> 0 [] n = "P1" -> 1 [] n = "P2" -> 2
                      [] n = "P3" -> 3 [] n = "P4" -> 4 [] n = "P5" -> 5]

\* C7: get_priority is Some(n) for the earliest label named P0..P5, "Pn" being
\* its name, and None without such a label or without labels.
PriorityFirstMatch ==
    call.op = "get_priority" =>
       LET i == call.args[1]
           ls == IF i.labels = None THEN <<>> ELSE i.labels[1]
           hits == {k \in DOMAIN ls : ls[k] \in PriorityNames}
       IN ret = IF hits = {} THEN None
                ELSE Some(PriorityValue[ls[CHOOSE k \in hits : \A m \in hits : k <= m]])

\* Labels P2 then P0 were given and 2 came back.
PriorityFirstMatchWitness ==
    /\ call.op = "get_priority"
    /\ call.args[1].labels = Some(<<"P2", "P0">>)
    /\ ret = Some(2)

\* C8: no pull request is in the returned vector or among the rows, every row
\* is the projection of a fetched true issue, and in a completed run the rows
\* are, as a multiset, the projections of the fetched true issues.
TrueIssuesPreserved ==
    /\ Returned => \A k \in DOMAIN issues : issues[k].pull_request = None
    /\ \A r \in Range(rows) :
          \E k \in DOMAIN fetched :
             fetched[k].pull_request = None /\ ~csv(fetched[k]).panic /\ r = csv(fetched[k]).v
    /\ pc = "done" =>
          BagOf(rows) = BagOf([k \in DOMAIN TrueIssues(fetched) |-> csv(TrueIssues(fetched)[k]).v])

\* A run that fetched a pull request and a true issue has completed with rows.
TrueIssuesPreservedWitness ==
    /\ pc = "done"
    /\ Len(rows) >= 2
    /\ \E k \in DOMAIN fetched : fetched[k].pull_request # None

\* C9: for two issues that are not Closed and whose priorities tie, the
\* comparator orders by state, then component, then number, and is Equal only
\* when all three agree.
TieBreakCascade ==
    (/\ call.op = "compare"
     /\ get_state(call.args[1]) # "Closed" /\ get_state(call.args[2]) # "Closed"
     /\ get_priority(call.args[1]) = get_priority(call.args[2])
     /\ ~get_component(call.args[1]).panic /\ ~get_component(call.args[2]).panic) =>
       LET a == call.args[1]
           b == call.args[2]
           sa == StateRank(get_state(a))
           sb == StateRank(get_state(b))
           cc == StrCmp(get_component(a).v, get_component(b).v)
       IN ret.ab = IF sa # sb THEN NumCmp(sa, sb)
                   ELSE IF cc # "Equal" THEN cc
                   ELSE NumCmp(a.number, b.number)

\* C10: a run that aborts on a failed fetch, an unresolvable repository URL
\* or a short timestamp has handed no row to the writer.
AllOrNothing == pc = "aborted" => rows = <<>>
====
